---- MODULE Spec2Model ----
(***************************************************************************)
(* A model of PtyManager (electron/pty-manager.ts), the terminal-session  *)
(* process manager: the registry of sessions, their bounded output        *)
(* buffers, the two process backends and the notifications to the window. *)
(*                                                                         *)
(* Strings are run-length encoded: a string is a sequence of tokens       *)
(* [c, n]; a token with c = "x" stands for n ordinary characters, any     *)
(* other token is the single byte named by c (n = 1).  No two adjacent    *)
(* tokens of a string are both runs of ordinary characters, so equal      *)
(* strings have equal encodings.                                           *)
(***************************************************************************)
EXTENDS Integers, Sequences, FiniteSets, TLC

(* ------------------------------ bounds -------------------------------- *)
\* Processes spawned over a run of the manager with two sessions.
MaxProcs == 2
\* Data events appended to one of its buffers between two resets of the history.
MaxAppends == 1
\* The same two bounds in the specification of a single session.
MaxBufProcs == 2
MaxBufAppends == 3
\* Data events of short chunks of escape-sequence bytes appended to a buffer.
MaxFilterProcs == 1
\* Data events of the session a terminal panel is mounted for.
MaxPanelAppends == 3
\* Processes spawned for one id over its kills, restarts and re-creations.
MaxLifeProcs == 3
MaxFilterAppends == 3

(* ------------------------- program constants -------------------------- *)
HighWater == 200000
LowWater == 160000

Ids == {"s1", "s2"}
Cwds == {"/tmp", "/work"}
Types == {"terminal", "claude-code"}
\* exit codes a backend reports; NoCode is the null of the piped backend
NoCode == -1
ExitCodes == {1}

(* ------------------------------ strings ------------------------------- *)
Plain(n) == <<[c |-> "x", n |-> n]>>
Bytes(names) == [i \in 1..Len(names) |-> [c |-> names[i], n |-> 1]]

\* In the recursive operators below the argument is bound once
\* (s \in {str}), so that it is evaluated a single time per call.

RECURSIVE Norm(_)
\* the canonical encoding: adjacent runs of ordinary characters are one run
Norm(str) ==
  CHOOSE r \in
    {IF Len(s) < 2 THEN s
     ELSE IF s[1].c = "x" /\ s[2].c = "x"
          THEN Norm(<<[c |-> "x", n |-> s[1].n + s[2].n]>> \o SubSeq(s, 3, Len(s)))
          ELSE <<s[1]>> \o Norm(Tail(s)) : s \in {str}} : TRUE

RECURSIVE length(_)
\* String.prototype.length
length(str) ==
  CHOOSE r \in {IF s = <<>> THEN 0 ELSE s[1].n + length(Tail(s)) : s \in {str}} : TRUE

RECURSIVE join(_)
\* Array.prototype.join('')
join(chunks) ==
  CHOOSE r \in
    {IF q = <<>> THEN <<>> ELSE Norm(q[1] \o join(Tail(q))) : q \in {chunks}} : TRUE

StartsWith(s, p) == Len(s) >= Len(p) /\ SubSeq(s, 1, Len(p)) = p

RECURSIVE RemoveAll(_, _)
\* String.prototype.replace(/p1|p2|.../g, ''): one left-to-right scan that
\* drops every non-overlapping match of a pattern of pats (all of one length)
RemoveAll(str, pats) ==
  CHOOSE r \in
    {IF s = <<>> THEN <<>>
     ELSE IF \E p \in pats : StartsWith(s, p)
          THEN LET p == CHOOSE q \in pats : StartsWith(s, q)
               IN RemoveAll(SubSeq(s, Len(p) + 1, Len(s)), pats)
          ELSE <<s[1]>> \o RemoveAll(Tail(s), pats) : s \in {str}} : TRUE

replace(s, pats) == Norm(RemoveAll(s, pats))

ClearScreen == Bytes(<<"ESC", "[", "2", "J">>)
ClearScrollback == Bytes(<<"ESC", "[", "3", "J">>)
CursorHome == Bytes(<<"ESC", "[", "H">>)
AltScreenOn == Bytes(<<"ESC", "[", "?", "1", "0", "4", "9", "h">>)
AltScreenOff == Bytes(<<"ESC", "[", "?", "1", "0", "4", "9", "l">>)
ResetTerminal == Bytes(<<"ESC", "c">>)

filterClearScreenCodes(buffer) ==
  replace(replace(replace(replace(replace(buffer,
    {ClearScreen}), {ClearScrollback}), {CursorHome}),
    {AltScreenOn, AltScreenOff}), {ResetTerminal})

(* ------------------------- the Map of sessions ------------------------ *)
\* A Map is the sequence of its entries in insertion order.
Keys(map) == {map[i].key : i \in 1..Len(map)}
Has(map, k) == k \in Keys(map)
Get(map, k) == map[CHOOSE i \in 1..Len(map) : map[i].key = k].value
MapSet(map, k, v) ==
  IF Has(map, k)
  THEN [i \in 1..Len(map) |-> IF map[i].key = k THEN [key |-> k, value |-> v] ELSE map[i]]
  ELSE Append(map, [key |-> k, value |-> v])
MapDelete(map, k) == SelectSeq(map, LAMBDA e : e.key # k)

(* ------------------------------- inputs ------------------------------- *)
\* output chunks a process produces
ChunkA == Plain(150000)
ChunkB == Plain(60000)
ChunkCls == ClearScreen \o Plain(3)
ChunkC == Plain(50000)
DataChunks == {ChunkCls}
\* the buffer does not depend on where and as what a session runs
BufCwds == {"/tmp"}
BufTypes == {"terminal"}
\* a single chunk longer than the low-water mark
ChunkD == Plain(170000)
BufChunks == {ChunkA, ChunkB, ChunkC, ChunkD, ChunkCls}
\* short chunks: whole escape sequences, parts of them, and look-alikes
ChunkCsi == Bytes(<<"ESC", "[">>)
ChunkCursorTo == Bytes(<<"ESC", "[", "1", ";", "1", "H">>)
FilterChunks ==
  {ClearScreen, CursorHome, AltScreenOn, ResetTerminal, ChunkCsi, ChunkCursorTo,
   Bytes(<<"ESC">>), Bytes(<<"2">>), Bytes(<<"J">>), Bytes(<<"H">>), Bytes(<<"c">>),
   Plain(2)}
\* input typed into a terminal ("echo hi\n")
WriteData == {Plain(8)}
\* error.message of a child process's 'error' event
ErrorMessages == {Plain(12)}
\* [cols, rows] reported by the terminal widget
Sizes == {<<80, 24>>}

\* "[Terminal - child_process mode]\r\n"
DegradedNotice == Bytes(<<"[">>) \o Plain(32)

(* ----------------- the host: platform, files, environment -------------- *)
Platforms == {"win32", "linux"}
\* node versions nvm may have installed: v9.0.0 .. v<MaxMajor>.0.0
MaxMajor == 11
Versions == {<<major, 0, 0>> : major \in 9..MaxMajor}
\* agent executables that exist at once
MaxFiles == 2

\* text is a sequence of characters where its order matters, a string elsewhere
Digit(d) == <<"0", "1", "2", "3", "4", "5", "6", "7", "8", "9">>[d + 1]
RECURSIVE toString(_)
toString(n) == IF n < 10 THEN <<Digit(n)>> ELSE toString(n \div 10) \o <<Digit(n % 10)>>
\* the name of a version's directory under versions/node
VersionName(v) ==
  <<"v">> \o toString(v[1]) \o <<".">> \o toString(v[2]) \o <<".">> \o toString(v[3])
RECURSIVE Text(_)
Text(chars) == IF chars = <<>> THEN "" ELSE Head(chars) \o Text(Tail(chars))
\* the UTF-16 code unit of a character of a version name
charCodeAt(c) ==
  IF c = "v" THEN 118 ELSE IF c = "." THEN 46 ELSE 48 + (CHOOSE d \in 0..9 : Digit(d) = c)

\* a < b as Array.prototype.sort() without a comparator orders strings:
\* by code units, a proper prefix first
RECURSIVE StringLess(_, _)
StringLess(a, b) ==
  IF b = <<>> THEN FALSE
  ELSE IF a = <<>> THEN TRUE
  ELSE IF Head(a) # Head(b) THEN charCodeAt(Head(a)) < charCodeAt(Head(b))
  ELSE StringLess(Tail(a), Tail(b))

\* names.sort(): the names in ascending order
RECURSIVE sort(_)
sort(names) ==
  IF names = {} THEN <<>>
  ELSE LET least == CHOOSE a \in names : \A b \in names \ {a} : StringLess(a, b)
       IN <<least>> \o sort(names \ {least})

reverse(seq) == [k \in 1..Len(seq) |-> seq[Len(seq) + 1 - k]]

\* path.join of a directory and what is below it
path_join(h, dir, rest) == dir \o (IF h.platform = "win32" THEN "\\" ELSE "/") \o rest

\* os.homedir()
homedir(h) == IF h.platform = "win32" THEN "C:\\Users\\u" ELSE "/home/u"

\* process.env[key] || fallback
EnvOr(h, key, fallback) ==
  IF Has(h.env, key) /\ Get(h.env, key) # "" THEN Get(h.env, key) ELSE fallback

\* fs.existsSync(p)
existsSync(h, p) == p \in h.files

\* process.env.NVM_DIR || path.join(homeDir, '.nvm'), and versions/node below it
nvmDir(h) == EnvOr(h, "NVM_DIR", path_join(h, homedir(h), ".nvm"))
versionsDir(h) == path_join(h, nvmDir(h), "versions/node")

\* fs.readdirSync(versionsDir).sort().reverse() inside its try: nothing when it throws
sortedVersions(h) == IF h.readdirThrows THEN <<>> ELSE reverse(sort(h.versions))

\* the paths pushed for the nvm versions, for the executable called name
nvmPaths(h, name) ==
  [k \in 1..Len(sortedVersions(h)) |->
     path_join(h, path_join(h, versionsDir(h), Text(sortedVersions(h)[k])), "bin/" \o name)]

\* possiblePaths of findHappyExecutable (name "happy") and findClaudeExecutable
\* (name "claude")
possiblePaths(h, name) ==
  IF h.platform = "win32"
  THEN << path_join(h, homedir(h), "AppData\\Roaming\\npm\\" \o name \o ".cmd"),
          path_join(h, homedir(h), "AppData\\Roaming\\npm\\" \o name),
          "C:\\Program Files\\nodejs\\" \o name \o ".cmd" >>
  ELSE (IF existsSync(h, nvmDir(h)) /\ existsSync(h, versionsDir(h))
        THEN nvmPaths(h, name) ELSE <<>>)
       \o << "/usr/local/bin/" \o name,
             "/opt/homebrew/bin/" \o name,
             path_join(h, homedir(h), ".local/bin/" \o name),
             path_join(h, homedir(h), "bin/" \o name),
             "/usr/bin/" \o name >>

\* mutant: the last existing path is returned
firstExisting_last(h, paths, name) ==
  IF \E k \in 1..Len(paths) : existsSync(h, paths[k])
  THEN paths[CHOOSE k \in 1..Len(paths) :
          /\ existsSync(h, paths[k])
          /\ \A j \in (k + 1)..Len(paths) : ~existsSync(h, paths[j])]
  ELSE name

\* "for (const p of possiblePaths) if (fs.existsSync(p)) return p", then the bare name
firstExisting(h, paths, name) ==
  IF \E k \in 1..Len(paths) : existsSync(h, paths[k])
  THEN paths[CHOOSE k \in 1..Len(paths) :
          /\ existsSync(h, paths[k])
          /\ \A j \in 1..(k - 1) : ~existsSync(h, paths[j])]
  ELSE name

findHappyExecutable(h) == firstExisting(h, possiblePaths(h, "happy"), "happy")

findClaudeExecutable(h) == firstExisting(h, possiblePaths(h, "claude"), "claude")

getDefaultShell(h) ==
  IF h.platform = "win32"
  THEN firstExisting(h, << "C:\\Program Files\\PowerShell\\7\\pwsh.exe",
                           "C:\\Program Files (x86)\\PowerShell\\7\\pwsh.exe",
                           EnvOr(h, "LOCALAPPDATA", "undefined")
                             \o "\\Microsoft\\WindowsApps\\pwsh.exe" >>,
                     "powershell.exe")
  ELSE IF h.platform = "darwin" THEN EnvOr(h, "SHELL", "/bin/zsh")
  ELSE IF EnvOr(h, "SHELL", "") # "" THEN EnvOr(h, "SHELL", "")
  ELSE IF existsSync(h, "/bin/bash") THEN "/bin/bash"
  ELSE "/bin/sh"

\* the file create() spawns: codeAgentType is "claude", "happy" or "undefined",
\* shellOverride is "" when no shell is given
executable(h, type, shellOverride, codeAgentType) ==
  IF type = "claude-code"
  THEN IF codeAgentType = "claude" THEN findClaudeExecutable(h) ELSE findHappyExecutable(h)
  ELSE IF shellOverride # "" THEN shellOverride ELSE getDefaultShell(h)

\* { ...a, ...b }
RECURSIVE Spread(_, _)
Spread(a, b) ==
  IF b = <<>> THEN a ELSE Spread(MapSet(a, Head(b).key, Head(b).value), Tail(b))

\* a line of the login shell's `env` output is key, "=" when eq, value;
\* line.indexOf('=') > 0 when there is an "=" after a non-empty key
RECURSIVE parseEnv(_)
parseEnv(lines) ==
  IF lines = <<>> THEN <<>>
  ELSE LET line == lines[Len(lines)]
           envVars == parseEnv(SubSeq(lines, 1, Len(lines) - 1))
       IN IF line.eq /\ line.key # "" THEN MapSet(envVars, line.key, line.value)
          ELSE envVars

\* execSync throws when the shell fails or runs over its timeout
getShellEnv(h) == IF h.shell.threw THEN <<>> ELSE parseEnv(h.shell.lines)

\* pathParts.join(sep)
RECURSIVE Joined(_, _)
Joined(parts, sep) ==
  IF parts = <<>> THEN ""
  ELSE IF Len(parts) = 1 THEN parts[1]
  ELSE parts[1] \o sep \o Joined(Tail(parts), sep)

getEnhancedPath(h) ==
  LET existing(paths) == SelectSeq(paths, LAMBDA p : existsSync(h, p))
      nodeParts ==
        IF h.platform = "win32"
        THEN existing(<< path_join(h, homedir(h), "AppData\\Roaming\\npm"),
                         "C:\\Program Files\\nodejs",
                         "C:\\Program Files (x86)\\nodejs" >>)
        ELSE (IF existsSync(h, versionsDir(h))
              THEN [k \in 1..Len(sortedVersions(h)) |->
                      path_join(h, path_join(h, versionsDir(h), Text(sortedVersions(h)[k])),
                                "bin")]
              ELSE <<>>)
             \o existing(<< "/usr/local/bin", "/opt/homebrew/bin",
                            path_join(h, homedir(h), ".local/bin"),
                            path_join(h, homedir(h), "bin"), "/usr/bin", "/bin" >>)
      pathParts == nodeParts \o (IF EnvOr(h, "PATH", "") # "" THEN <<Get(h.env, "PATH")>>
                                 ELSE <<>>)
  IN Joined(pathParts, IF h.platform = "win32" THEN ";" ELSE ":")

\* the keys create() sets after the two spreads
Forced(h) ==
  << [key |-> "HOME", value |-> EnvOr(h, "HOME", homedir(h))],
     [key |-> "PATH", value |-> getEnhancedPath(h)],
     [key |-> "LANG", value |-> "en_US.UTF-8"],
     [key |-> "LC_ALL", value |-> "en_US.UTF-8"],
     [key |-> "PYTHONIOENCODING", value |-> "utf-8"],
     [key |-> "PYTHONUTF8", value |-> "1"] >>

\* mutant: process.env is spread last
envWithUtf8_processLast(h, usePty) ==
  Spread(Spread(getShellEnv(h), Forced(h)), h.env)

\* envWithUtf8 of the node-pty attempt (usePty) and of the child_process fallback
envWithUtf8(h, usePty) ==
  IF usePty
  THEN Spread(Spread(getShellEnv(h), h.env), Forced(h))
  ELSE Spread(Spread(getShellEnv(h), h.env), Forced(h))

(* ------------------------------ host inputs ---------------------------- *)
\* process.env of the application
DefaultEnv == << [key |-> "PATH", value |-> "/usr/sbin"] >>
ProcessEnvs ==
  { <<>>,
    DefaultEnv,
    << [key |-> "PATH", value |-> "/usr/sbin"], [key |-> "LANG", value |-> "C"],
       [key |-> "HOME", value |-> "/root"], [key |-> "HAPPY_SERVER_URL", value |-> "process"] >>,
    << [key |-> "LC_ALL", value |-> "POSIX"], [key |-> "PYTHONUTF8", value |-> "0"],
       [key |-> "NVM_DIR", value |-> "/opt/nvm"] >> }
\* what `$SHELL -ilc env` gives
DefaultShell ==
  [threw |-> FALSE,
   lines |-> << [key |-> "HAPPY_SERVER_URL", eq |-> TRUE, value |-> "shell"] >>]
ShellOutputs ==
  { [threw |-> TRUE, lines |-> <<>>],
    DefaultShell,
    [threw |-> FALSE,
     lines |-> << [key |-> "motd", eq |-> FALSE, value |-> ""],
                  [key |-> "LANG", eq |-> TRUE, value |-> "zh_TW.Big5"],
                  [key |-> "LC_ALL", eq |-> TRUE, value |-> "zh_TW.Big5"],
                  [key |-> "PATH", eq |-> TRUE, value |-> "/shell/bin"],
                  [key |-> "HOME", eq |-> TRUE, value |-> "/home/shell"],
                  [key |-> "", eq |-> TRUE, value |-> "x"],
                  [key |-> "EDITOR", eq |-> TRUE, value |-> "vi"],
                  [key |-> "EDITOR", eq |-> TRUE, value |-> "nano"] >>] }

RECURSIVE SubsetsUpTo(_, _)
SubsetsUpTo(S, n) ==
  IF n = 0 THEN {{}}
  ELSE LET smaller == SubsetsUpTo(S, n - 1)
       IN smaller \cup {a \cup {x} : a \in smaller, x \in S}

\* a host without files
BareHost(platform, env, shell, installed, readdirThrows) ==
  [platform |-> platform, env |-> env, shell |-> shell, files |-> {},
   versions |-> {VersionName(v) : v \in installed}, readdirThrows |-> readdirThrows]

\* directories an agent executable may be installed in
BinDirs(h, installed) ==
  IF h.platform = "win32"
  THEN {path_join(h, homedir(h), "AppData\\Roaming\\npm"), "C:\\Program Files\\nodejs"}
  ELSE {"/usr/local/bin", "/usr/bin"}
       \cup {path_join(h, path_join(h, versionsDir(h), Text(VersionName(v))), "bin") :
               v \in installed}

\* the executables of either agent a host may have
AgentFiles(h, installed) ==
  {[dir |-> dir, path |-> path_join(h, dir, name)] :
     dir \in BinDirs(h, installed),
     name \in IF h.platform = "win32" THEN {"happy.cmd", "claude.cmd", "claude"}
              ELSE {"happy", "claude"}}

\* a host: nvm is "absent" (no nvm directory), "empty" (no versions/node in
\* it) or "versions"; agents are the agent executables that exist, each in
\* its directory
HostOf(platform, env, shell, nvm, installed, readdirThrows, agents) ==
  LET h == BareHost(platform, env, shell, installed, readdirThrows)
  IN [h EXCEPT !.files =
        (IF nvm = "absent" THEN {} ELSE IF nvm = "empty" THEN {nvmDir(h)}
         ELSE {nvmDir(h), versionsDir(h)})
        \cup (IF platform = "win32" THEN {} ELSE {"/usr/bin", "/bin"})
        \cup {a.dir : a \in agents} \cup {a.path : a \in agents}]

DefaultHost == HostOf("linux", DefaultEnv, DefaultShell, "absent", {}, FALSE, {})

\* hosts that differ in what is installed
FileHosts ==
  UNION {
    UNION {
      {HostOf(platform, DefaultEnv, DefaultShell, "versions", installed, readdirThrows, agents) :
         readdirThrows \in BOOLEAN,
         agents \in SubsetsUpTo(
                      AgentFiles(BareHost(platform, DefaultEnv, DefaultShell, installed, FALSE),
                                 installed),
                      MaxFiles)} :
      installed \in IF platform = "win32" THEN {{}} ELSE SUBSET Versions} :
    platform \in Platforms}

\* hosts that differ in their environment
EnvHosts ==
  {HostOf(platform, env, shell, nvm, {}, FALSE, {}) :
     platform \in Platforms \cup {"darwin"}, env \in ProcessEnvs, shell \in ShellOutputs,
     nvm \in {"absent", "empty"}}

Hosts == FileHosts \cup EnvHosts

\* the dialog's choices (onSelect('happy'), onSelect('claude'))
CodeAgentTypes == {"happy", "claude"}
\* no terminal of this id in the workspace store
NoTerminal == [type |-> "none", codeAgentType |-> "undefined", cwd |-> ""]

(* -------------------------------- state ------------------------------- *)
VARIABLES
  instances,     \* this.instances: Map<string, PtyInstance>
  ptyAvailable,  \* module-level flag: node-pty loaded and not yet failed
  disposed,      \* this.disposed
  procs,         \* every process spawned so far; a process handle is its index
  history,       \* per id, the chunks appended to its buffer since it was last empty by construction or clear
  ret,           \* the operation or event of the last step and what it returned
  sent,          \* notifications the last step delivered to the consumer, in order
  calls,         \* backend calls the last step made, in order
  panel,         \* a terminal panel of the renderer: its restoration step and widget
  ui,            \* the renderer's terminal store: per id, the terminal's codeAgentType
  launch,        \* the file and env of each spawn of the last create or restart, in order
  host,          \* what the process finds around it: platform, files, process.env, the login shell
  main           \* main.ts: the window, powerSaveBlockerId, and the blockers the OS holds

vars == <<instances, ptyAvailable, disposed, procs, history, ret, sent, calls,
          panel, ui, launch, host, main>>

\* what a step of the manager alone leaves as it is
outside == <<panel, ui, launch, host, main>>

\* the manager's state at the start of a step
Mgr ==
  [instances |-> instances, ptyAvailable |-> ptyAvailable, disposed |-> disposed,
   procs |-> procs, sent |-> <<>>, calls |-> <<>>]

Msg(channel, id, data, num) == [channel |-> channel, id |-> id, data |-> data, num |-> num]
\* arg: the cwd of a spawn, the data of a write, <<>> otherwise
Call(fn, pid, threw, arg, size) ==
  [fn |-> fn, pid |-> pid, threw |-> threw, arg |-> arg, size |-> size]
\* cwd: the cwd argument of create and restart; ok: a boolean result;
\* null, text: the result of getOutputBuffer, text also the chunk of a data event;
\* stream: the stream of a data event; threw: an exception reached the caller;
\* pid, code: the process of a data, exit or error event and the code of an exit
Ret(op, id, cwd, ok, null, text) ==
  [op |-> op, id |-> id, cwd |-> cwd, ok |-> ok, null |-> null, text |-> text,
   stream |-> "", threw |-> FALSE, pid |-> 0, code |-> 0]

notifyTerminalCountChange(m) ==
  [m EXCEPT !.sent = Append(@, Msg("count", "", <<>>, Len(m.instances)))]

\* mutant: messages go to the window whether or not dispose() has run
safeSend_always(m, channel, id, data, num) ==
  [m EXCEPT !.sent = Append(@, Msg(channel, id, data, num))]

\* the window is destroyed only after dispose() has run (main's 'close' handler)
safeSend(m, channel, id, data, num) ==
  IF ~m.disposed THEN [m EXCEPT !.sent = Append(@, Msg(channel, id, data, num))] ELSE m

\* mutant: the record keeps no cwd
PtyInstance_noCwd(pid, type, cwd, usePty) ==
  [process |-> pid, type |-> type, cwd |-> "", usePty |-> usePty,
   outputBuffer |-> <<>>, outputBufferSize |-> 0]

PtyInstance(pid, type, cwd, usePty) ==
  [process |-> pid, type |-> type, cwd |-> cwd, usePty |-> usePty,
   outputBuffer |-> <<>>, outputBufferSize |-> 0]

\* a successful spawn on either backend: a new running process
spawned(m, fn, id, cwd, usePty) ==
  [m EXCEPT !.procs = Append(@, [id |-> id, usePty |-> usePty, status |-> "running"]),
            !.calls = Append(@, Call(fn, Len(m.procs) + 1, FALSE, cwd, <<0, 0>>))]

\* a spawn that throws
spawnThrew(m, fn, cwd) == [m EXCEPT !.calls = Append(@, Call(fn, 0, TRUE, cwd, <<0, 0>>))]

\* mutant: a spawn that threw does not switch the backend off
createNative_noDisable(m, id, cwd, type, nativeThrows) ==
  IF m.ptyAvailable
  THEN IF nativeThrows
       THEN [m |-> spawnThrew(m, "pty.spawn", cwd), usedPty |-> FALSE]
       ELSE LET m1 == spawned(m, "pty.spawn", id, cwd, TRUE)
                m2 == [m1 EXCEPT !.instances =
                         MapSet(@, id, PtyInstance(Len(m1.procs), type, cwd, TRUE))]
            IN [m |-> notifyTerminalCountChange(m2), usedPty |-> TRUE]
  ELSE [m |-> m, usedPty |-> FALSE]

\* create(): the node-pty attempt
createNative(m, id, cwd, type, nativeThrows) ==
  IF m.ptyAvailable
  THEN IF nativeThrows
       THEN [m |-> [spawnThrew(m, "pty.spawn", cwd) EXCEPT !.ptyAvailable = FALSE],
             usedPty |-> FALSE]
       ELSE LET m1 == spawned(m, "pty.spawn", id, cwd, TRUE)
                m2 == [m1 EXCEPT !.instances =
                         MapSet(@, id, PtyInstance(Len(m1.procs), type, cwd, TRUE))]
            IN [m |-> notifyTerminalCountChange(m2), usedPty |-> TRUE]
  ELSE [m |-> m, usedPty |-> FALSE]

\* mutant: the fallback starts without telling the renderer
createPiped_noNotice(m, id, cwd, type, pipedThrows) ==
  IF pipedThrows
  THEN [m |-> spawnThrew(m, "spawn", cwd), ok |-> FALSE]
  ELSE LET m1 == spawned(m, "spawn", id, cwd, FALSE)
           m3 == [m1 EXCEPT !.instances =
                    MapSet(@, id, PtyInstance(Len(m1.procs), type, cwd, FALSE))]
       IN [m |-> notifyTerminalCountChange(m3), ok |-> TRUE]

\* create(): the child_process fallback
createPiped(m, id, cwd, type, pipedThrows) ==
  IF pipedThrows
  THEN [m |-> spawnThrew(m, "spawn", cwd), ok |-> FALSE]
  ELSE LET m1 == spawned(m, "spawn", id, cwd, FALSE)
           m2 == safeSend(m1, "pty:output", id, DegradedNotice, 0)
           m3 == [m2 EXCEPT !.instances =
                    MapSet(@, id, PtyInstance(Len(m1.procs), type, cwd, FALSE))]
       IN [m |-> notifyTerminalCountChange(m3), ok |-> TRUE]

\* mutant: a failed node-pty spawn is not followed by the fallback
create_noFallback(m, id, cwd, type, nativeThrows, pipedThrows) ==
  LET n == createNative(m, id, cwd, type, nativeThrows)
  IN IF n.usedPty THEN [m |-> n.m, ok |-> TRUE]
     ELSE IF m.ptyAvailable THEN [m |-> n.m, ok |-> FALSE]
     ELSE createPiped(n.m, id, cwd, type, pipedThrows)

create(m, id, cwd, type, nativeThrows, pipedThrows) ==
  LET n == createNative(m, id, cwd, type, nativeThrows)
  IN IF n.usedPty THEN [m |-> n.m, ok |-> TRUE]
     ELSE createPiped(n.m, id, cwd, type, pipedThrows)

\* mutant: the whole Map is cleared instead of the one entry
kill_clearRegistry(m, id) ==
  IF Has(m.instances, id)
  THEN LET instance == Get(m.instances, id)
           m1 == [m EXCEPT !.calls = Append(@, Call("kill", instance.process, FALSE, <<>>, <<0, 0>>)),
                           !.procs[instance.process].status =
                              IF @ = "running" THEN "killed" ELSE @]
           m2 == [m1 EXCEPT !.instances = <<>>]
       IN [m |-> notifyTerminalCountChange(m2), ok |-> TRUE]
  ELSE [m |-> m, ok |-> FALSE]

\* mutant: the observer is called before the entry is deleted
kill_countFirst(m, id) ==
  IF Has(m.instances, id)
  THEN LET instance == Get(m.instances, id)
           m1 == [m EXCEPT !.calls = Append(@, Call("kill", instance.process, FALSE, <<>>, <<0, 0>>)),
                           !.procs[instance.process].status =
                              IF @ = "running" THEN "killed" ELSE @]
           m2 == notifyTerminalCountChange(m1)
       IN [m |-> [m2 EXCEPT !.instances = MapDelete(@, id)], ok |-> TRUE]
  ELSE [m |-> m, ok |-> FALSE]

\* mutant: the process is killed but the entry stays in the Map
kill_noDelete(m, id) ==
  IF Has(m.instances, id)
  THEN LET instance == Get(m.instances, id)
           m1 == [m EXCEPT !.calls = Append(@, Call("kill", instance.process, FALSE, <<>>, <<0, 0>>)),
                           !.procs[instance.process].status =
                              IF @ = "running" THEN "killed" ELSE @]
       IN [m |-> notifyTerminalCountChange(m1), ok |-> TRUE]
  ELSE [m |-> m, ok |-> FALSE]

kill(m, id) ==
  IF Has(m.instances, id)
  THEN LET instance == Get(m.instances, id)
           m1 == [m EXCEPT !.calls = Append(@, Call("kill", instance.process, FALSE, <<>>, <<0, 0>>)),
                           !.procs[instance.process].status =
                              IF @ = "running" THEN "killed" ELSE @]
           m2 == [m1 EXCEPT !.instances = MapDelete(@, id)]
       IN [m |-> notifyTerminalCountChange(m2), ok |-> TRUE]
  ELSE [m |-> m, ok |-> FALSE]

\* mutant: the saved history is not put back
restart_dropBuffer(m, id, cwd, nativeThrows, pipedThrows) ==
  IF Has(m.instances, id)
  THEN create(kill(m, id).m, id, cwd, Get(m.instances, id).type, nativeThrows, pipedThrows)
  ELSE [m |-> m, ok |-> FALSE]

\* mutant: no check that the id is registered
restart_noGuard(m, id, cwd, nativeThrows, pipedThrows) ==
  LET known == Has(m.instances, id)
      type == IF known THEN Get(m.instances, id).type ELSE "terminal"
      created == create(kill(m, id).m, id, cwd, type, nativeThrows, pipedThrows)
  IN IF created.ok /\ known
     THEN [m |-> [created.m EXCEPT !.instances =
                    MapSet(@, id, [Get(@, id) EXCEPT
                       !.outputBuffer = Get(m.instances, id).outputBuffer,
                       !.outputBufferSize = Get(m.instances, id).outputBufferSize])],
           ok |-> TRUE]
     ELSE created

\* mutant: the session is re-created as a plain terminal
restart_terminalType(m, id, cwd, nativeThrows, pipedThrows) ==
  IF Has(m.instances, id)
  THEN LET instance == Get(m.instances, id)
           created == create(kill(m, id).m, id, cwd, "terminal", nativeThrows, pipedThrows)
       IN IF created.ok
          THEN [m |-> [created.m EXCEPT !.instances =
                         MapSet(@, id, [Get(@, id) EXCEPT
                            !.outputBuffer = instance.outputBuffer,
                            !.outputBufferSize = instance.outputBufferSize])],
                ok |-> TRUE]
          ELSE created
  ELSE [m |-> m, ok |-> FALSE]

\* mutant: the old session is killed only once the new one exists
restart_keepOnFailure(m, id, cwd, nativeThrows, pipedThrows) ==
  IF Has(m.instances, id)
  THEN LET instance == Get(m.instances, id)
           created == create(kill(m, id).m, id, cwd, instance.type, nativeThrows, pipedThrows)
       IN IF created.ok
          THEN [m |-> [created.m EXCEPT !.instances =
                         MapSet(@, id, [Get(@, id) EXCEPT
                            !.outputBuffer = instance.outputBuffer,
                            !.outputBufferSize = instance.outputBufferSize])],
                ok |-> TRUE]
          ELSE [m |-> [m EXCEPT !.calls = created.m.calls,
                                !.ptyAvailable = created.m.ptyAvailable],
                ok |-> FALSE]
  ELSE [m |-> m, ok |-> FALSE]

\* mutant: the chunks are handed over, their total is not
restart_dropSize(m, id, cwd, nativeThrows, pipedThrows) ==
  IF Has(m.instances, id)
  THEN LET instance == Get(m.instances, id)
           created == create(kill(m, id).m, id, cwd, instance.type, nativeThrows, pipedThrows)
       IN IF created.ok
          THEN [m |-> [created.m EXCEPT !.instances =
                         MapSet(@, id, [Get(@, id) EXCEPT
                            !.outputBuffer = instance.outputBuffer])],
                ok |-> TRUE]
          ELSE created
  ELSE [m |-> m, ok |-> FALSE]

restart(m, id, cwd, nativeThrows, pipedThrows) ==
  IF Has(m.instances, id)
  THEN LET instance == Get(m.instances, id)
           type == instance.type
           savedBuffer == instance.outputBuffer
           savedBufferSize == instance.outputBufferSize
           killed == kill(m, id)
           created == create(killed.m, id, cwd, type, nativeThrows, pipedThrows)
       IN IF created.ok /\ Has(created.m.instances, id)
          THEN [m |-> [created.m EXCEPT !.instances =
                         MapSet(@, id, [Get(@, id) EXCEPT
                                          !.outputBuffer = savedBuffer,
                                          !.outputBufferSize = savedBufferSize])],
                ok |-> TRUE]
          ELSE [m |-> created.m, ok |-> created.ok]
  ELSE [m |-> m, ok |-> FALSE]

getCwd(id) == IF Has(instances, id) THEN Get(instances, id).cwd ELSE "null"

exists(id) == Has(instances, id)

\* the string getOutputBuffer returns; meaningful when the id is registered
getOutputBuffer(id) ==
  IF Has(instances, id)
  THEN filterClearScreenCodes(join(Get(instances, id).outputBuffer))
  ELSE <<>>

RECURSIVE trim_toHigh(_, _)
\* mutant: the loop stops at the high-water mark
trim_toHigh(buffer, size) ==
  IF Len(buffer) > 1 /\ size > HighWater
  THEN trim_toHigh(Tail(buffer), size - length(Head(buffer)))
  ELSE [outputBuffer |-> buffer, outputBufferSize |-> size]

RECURSIVE trim_untilLow(_, _)
\* mutant: chunks are shifted until the size is under the mark, the last one too
trim_untilLow(buffer, size) ==
  IF buffer # <<>> /\ size > LowWater
  THEN trim_untilLow(Tail(buffer), size - length(Head(buffer)))
  ELSE [outputBuffer |-> buffer, outputBufferSize |-> size]

RECURSIVE trim(_, _)
\* while (outputBuffer.length > 1 && outputBufferSize > 160000) shift
trim(buffer, size) ==
  IF Len(buffer) > 1 /\ size > LowWater
  THEN trim(Tail(buffer), size - length(Head(buffer)))
  ELSE [outputBuffer |-> buffer, outputBufferSize |-> size]

\* mutant: the trim starts at the high-water mark itself
appendOutput_trimAtHigh(instance, data) ==
  LET buffer == Append(instance.outputBuffer, data)
      size == instance.outputBufferSize + length(data)
      kept == IF size >= HighWater THEN trim(buffer, size)
              ELSE [outputBuffer |-> buffer, outputBufferSize |-> size]
  IN [instance EXCEPT !.outputBuffer = kept.outputBuffer,
                      !.outputBufferSize = kept.outputBufferSize]

\* mutant: the new chunk is put in front of the retained ones
appendOutput_prepend(instance, data) ==
  LET buffer == <<data>> \o instance.outputBuffer
      size == instance.outputBufferSize + length(data)
      kept == IF size > HighWater THEN trim(buffer, size)
              ELSE [outputBuffer |-> buffer, outputBufferSize |-> size]
  IN [instance EXCEPT !.outputBuffer = kept.outputBuffer,
                      !.outputBufferSize = kept.outputBufferSize]

\* the body of a data handler for a registered instance
appendOutput(instance, data) ==
  LET buffer == Append(instance.outputBuffer, data)
      size == instance.outputBufferSize + length(data)
      kept == IF size > HighWater THEN trim(buffer, size)
              ELSE [outputBuffer |-> buffer, outputBufferSize |-> size]
  IN [instance EXCEPT !.outputBuffer = kept.outputBuffer,
                      !.outputBufferSize = kept.outputBufferSize]

RECURSIVE killEach_skipping(_, _)
\* mutant: the loop steps by position over the entries that are left, so the
\* entry that moves into a removed entry's place is passed over
killEach_skipping(m, ids) ==
  IF ids = <<>> THEN m
  ELSE killEach_skipping(kill(m, Head(ids)).m,
                         IF Len(ids) > 1 THEN Tail(Tail(ids)) ELSE <<>>)

RECURSIVE killEach(_, _)
\* for (const [id] of this.instances) this.kill(id)
killEach(m, ids) ==
  IF ids = <<>> THEN m ELSE killEach(kill(m, Head(ids)).m, Tail(ids))

(* ------------------------------- actions ------------------------------ *)
Commit(m) ==
  /\ instances' = m.instances
  /\ ptyAvailable' = m.ptyAvailable
  /\ disposed' = m.disposed
  /\ procs' = m.procs
  /\ sent' = m.sent
  /\ calls' = m.calls

\* the window is open and its manager constructed, on the host h
InitOn(h) ==
  /\ instances = <<>>
  /\ ptyAvailable \in BOOLEAN
  /\ disposed = FALSE
  /\ procs = <<>>
  /\ history = [i \in Ids |-> <<>>]
  /\ ret = Ret("init", "", "", FALSE, FALSE, <<>>)
  /\ sent = <<>>
  /\ calls = <<>>
  /\ panel = [phase |-> "unmounted", snapshot |-> <<>>, written |-> <<>>, produced |-> {}]
  /\ ui = [i \in Ids |-> NoTerminal]
  /\ launch = <<>>
  /\ host = h
  /\ main = [window |-> "open", powerSaveBlockerId |-> 1, started |-> 1, blockers |-> {1}]

Init == InitOn(DefaultHost)

\* create(options) for an id the caller has not registered
Create(id, cwd, type, nativeThrows, pipedThrows, maxProcs) ==
  /\ ~disposed
  /\ ~Has(instances, id)
  /\ Len(procs) < maxProcs
  /\ LET r == create(Mgr, id, cwd, type, nativeThrows, pipedThrows)
     IN /\ Commit(r.m)
        /\ ret' = Ret("create", id, cwd, r.ok, FALSE, <<>>)
        /\ history' = [history EXCEPT ![id] = <<>>]

Write(id, data) ==
  /\ ~disposed
  /\ LET m == IF Has(instances, id)
              THEN LET instance == Get(instances, id)
                   IN [Mgr EXCEPT !.calls = Append(@,
                         Call(IF instance.usePty THEN "write" ELSE "stdin.write",
                              instance.process, FALSE, data, <<0, 0>>))]
              ELSE Mgr
     IN Commit(m)
  /\ ret' = Ret("write", id, "", FALSE, FALSE, <<>>)
  /\ UNCHANGED history

\* mutant: the usePty test is left out
Resize_anyBackend(id, size) ==
  /\ ~disposed
  /\ LET m == IF Has(instances, id)
              THEN [Mgr EXCEPT !.calls = Append(@,
                      Call("resize", Get(instances, id).process, FALSE, <<>>, size))]
              ELSE Mgr
     IN Commit(m)
  /\ ret' = Ret("resize", id, "", FALSE, FALSE, <<>>)
  /\ UNCHANGED history

Resize(id, size) ==
  /\ ~disposed
  /\ LET m == IF Has(instances, id) /\ Get(instances, id).usePty
              THEN [Mgr EXCEPT !.calls = Append(@,
                      Call("resize", Get(instances, id).process, FALSE, <<>>, size))]
              ELSE Mgr
     IN Commit(m)
  /\ ret' = Ret("resize", id, "", FALSE, FALSE, <<>>)
  /\ UNCHANGED history

Kill(id) ==
  /\ ~disposed
  /\ LET r == kill(Mgr, id)
     IN /\ Commit(r.m)
        /\ ret' = Ret("kill", id, "", r.ok, FALSE, <<>>)
  /\ history' = [history EXCEPT ![id] = <<>>]

Restart(id, cwd, nativeThrows, pipedThrows, maxProcs) ==
  /\ ~disposed
  /\ Len(procs) < maxProcs
  /\ LET r == restart(Mgr, id, cwd, nativeThrows, pipedThrows)
     IN /\ Commit(r.m)
        /\ ret' = Ret("restart", id, cwd, r.ok, FALSE, <<>>)
        /\ history' = IF r.ok THEN history ELSE [history EXCEPT ![id] = <<>>]

GetOutputBuffer(id) ==
  /\ ~disposed
  /\ Commit(Mgr)
  /\ ret' = Ret("getOutputBuffer", id, "", FALSE, ~Has(instances, id), getOutputBuffer(id))
  /\ UNCHANGED history

\* mutant: the running size is not reset
ClearOutputBuffer_keepSize(id) ==
  /\ ~disposed
  /\ LET m == IF Has(instances, id)
              THEN [Mgr EXCEPT !.instances =
                      MapSet(@, id, [Get(@, id) EXCEPT !.outputBuffer = <<>>])]
              ELSE Mgr
     IN Commit(m)
  /\ ret' = Ret("clearOutputBuffer", id, "", FALSE, FALSE, <<>>)
  /\ history' = [history EXCEPT ![id] = <<>>]

ClearOutputBuffer(id) ==
  /\ ~disposed
  /\ LET m == IF Has(instances, id)
              THEN [Mgr EXCEPT !.instances =
                      MapSet(@, id, [Get(@, id) EXCEPT !.outputBuffer = <<>>,
                                                       !.outputBufferSize = 0])]
              ELSE Mgr
     IN Commit(m)
  /\ ret' = Ret("clearOutputBuffer", id, "", FALSE, FALSE, <<>>)
  /\ history' = [history EXCEPT ![id] = <<>>]

Dispose ==
  /\ ~disposed
  /\ Commit(killEach([Mgr EXCEPT !.disposed = TRUE],
                     [i \in 1..Len(instances) |-> instances[i].key]))
  /\ ret' = Ret("dispose", "", "", FALSE, FALSE, <<>>)
  /\ history' = [i \in Ids |-> <<>>]

\* the streams a process delivers data events on
Streams(usePty) == IF usePty THEN {"onData"} ELSE {"stdout", "stderr"}

\* mutant: the live stream goes through the restoration filter as well
ProcData_filtered(pid, stream, data, limit) ==
  /\ pid \in 1..Len(procs)
  /\ procs[pid].status \in {"running", "killed"}
  /\ stream \in Streams(procs[pid].usePty)
  /\ LET id == procs[pid].id
         registered == Has(instances, id)
     IN /\ registered => Len(history[id]) < limit
        /\ LET m1 == IF registered
                     THEN [Mgr EXCEPT !.instances =
                             MapSet(@, id, appendOutput(Get(@, id), data))]
                     ELSE Mgr
           IN Commit(safeSend(m1, "pty:output", id, filterClearScreenCodes(data), 0))
        /\ ret' = [Ret("data", id, "", FALSE, FALSE, data) EXCEPT !.stream = stream,
                                                                 !.pid = pid]
        /\ history' = IF registered THEN [history EXCEPT ![id] = Append(@, data)]
                      ELSE history

\* a data event of process pid (onData, or stdout/stderr 'data')
ProcData(pid, stream, data, limit) ==
  /\ pid \in 1..Len(procs)
  /\ procs[pid].status \in {"running", "killed"}
  /\ stream \in Streams(procs[pid].usePty)
  /\ LET id == procs[pid].id
         registered == Has(instances, id)
     IN /\ registered => Len(history[id]) < limit
        /\ LET m1 == IF registered
                     THEN [Mgr EXCEPT !.instances =
                             MapSet(@, id, appendOutput(Get(@, id), data))]
                     ELSE Mgr
           IN Commit(safeSend(m1, "pty:output", id, data, 0))
        /\ ret' = [Ret("data", id, "", FALSE, FALSE, data) EXCEPT !.stream = stream,
                                                                 !.pid = pid]
        /\ history' = IF registered THEN [history EXCEPT ![id] = Append(@, data)]
                      ELSE history

\* mutant: an exit is reported only for a process that is still registered
ProcExit_registeredOnly(pid, exitCode) ==
  /\ pid \in 1..Len(procs)
  /\ procs[pid].status \in {"running", "killed"}
  /\ exitCode = NoCode => ~procs[pid].usePty
  /\ LET id == procs[pid].id
         m1 == IF Has(instances, id)
               THEN safeSend(Mgr, "pty:exit", id, <<>>, IF exitCode = NoCode THEN 0 ELSE exitCode)
               ELSE Mgr
         m2 == [m1 EXCEPT !.instances = MapDelete(@, id),
                          !.procs[pid].status = "exited"]
     IN /\ Commit(notifyTerminalCountChange(m2))
        /\ ret' = [Ret("exit", id, "", FALSE, FALSE, <<>>) EXCEPT !.pid = pid,
                                                                 !.code = exitCode]
        /\ history' = [history EXCEPT ![id] = <<>>]

\* mutant: the observer is called before the entry is deleted
ProcExit_countFirst(pid, exitCode) ==
  /\ pid \in 1..Len(procs)
  /\ procs[pid].status \in {"running", "killed"}
  /\ exitCode = NoCode => ~procs[pid].usePty
  /\ LET id == procs[pid].id
         m1 == safeSend(Mgr, "pty:exit", id, <<>>, IF exitCode = NoCode THEN 0 ELSE exitCode)
         m2 == notifyTerminalCountChange(m1)
     IN /\ Commit([m2 EXCEPT !.instances = MapDelete(@, id),
                             !.procs[pid].status = "exited"])
        /\ ret' = [Ret("exit", id, "", FALSE, FALSE, <<>>) EXCEPT !.pid = pid,
                                                                 !.code = exitCode]
        /\ history' = [history EXCEPT ![id] = <<>>]

\* the exit event of process pid (onExit, or 'exit')
ProcExit(pid, exitCode) ==
  /\ pid \in 1..Len(procs)
  /\ procs[pid].status \in {"running", "killed"}
  /\ exitCode = NoCode => ~procs[pid].usePty
  /\ LET id == procs[pid].id
         m1 == safeSend(Mgr, "pty:exit", id, <<>>, IF exitCode = NoCode THEN 0 ELSE exitCode)
         m2 == [m1 EXCEPT !.instances = MapDelete(@, id),
                          !.procs[pid].status = "exited"]
     IN /\ Commit(notifyTerminalCountChange(m2))
        /\ ret' = [Ret("exit", id, "", FALSE, FALSE, <<>>) EXCEPT !.pid = pid,
                                                                 !.code = exitCode]
        /\ history' = [history EXCEPT ![id] = <<>>]

\* `\r\n[Error: ${error.message}]\r\n`
ErrorOutput(message) ==
  Norm(Plain(2) \o Bytes(<<"[">>) \o Plain(7) \o message \o Bytes(<<"]">>) \o Plain(2))

\* mutant: an error ends the session as an exit does
ProcError_deregisters(pid, message) ==
  /\ pid \in 1..Len(procs)
  /\ procs[pid].status \in {"running", "killed"}
  /\ ~procs[pid].usePty
  /\ LET m1 == safeSend(Mgr, "pty:output", procs[pid].id, ErrorOutput(message), 0)
     IN Commit([m1 EXCEPT !.instances = MapDelete(@, procs[pid].id)])
  /\ ret' = [Ret("error", procs[pid].id, "", FALSE, FALSE, message) EXCEPT !.pid = pid]
  /\ UNCHANGED history

\* the 'error' event of a child process
ProcError(pid, message) ==
  /\ pid \in 1..Len(procs)
  /\ procs[pid].status \in {"running", "killed"}
  /\ ~procs[pid].usePty
  /\ Commit(safeSend(Mgr, "pty:output", procs[pid].id, ErrorOutput(message), 0))
  /\ ret' = [Ret("error", procs[pid].id, "", FALSE, FALSE, message) EXCEPT !.pid = pid]
  /\ UNCHANGED history

NextFor(ids, cwds, types, chunks, limit, maxProcs) ==
  \/ \E id \in ids, cwd \in cwds, type \in types, nt \in BOOLEAN, pt \in BOOLEAN :
       Create(id, cwd, type, nt, pt, maxProcs) /\ UNCHANGED outside
  \/ \E id \in ids, data \in WriteData : Write(id, data) /\ UNCHANGED outside
  \/ \E id \in ids, size \in Sizes : Resize(id, size) /\ UNCHANGED outside
  \/ \E id \in ids : Kill(id) /\ UNCHANGED outside
  \/ \E id \in ids, cwd \in cwds, nt \in BOOLEAN, pt \in BOOLEAN :
       Restart(id, cwd, nt, pt, maxProcs) /\ UNCHANGED outside
  \/ \E id \in ids : GetOutputBuffer(id) /\ UNCHANGED outside
  \/ \E id \in ids : ClearOutputBuffer(id) /\ UNCHANGED outside
  \/ Dispose /\ UNCHANGED outside
  \/ \E pid \in 1..maxProcs, stream \in Streams(TRUE) \cup Streams(FALSE), data \in chunks :
       ProcData(pid, stream, data, limit) /\ UNCHANGED outside
  \/ \E pid \in 1..maxProcs, code \in ExitCodes \cup {NoCode} :
       ProcExit(pid, code) /\ UNCHANGED outside
  \/ \E pid \in 1..maxProcs, message \in ErrorMessages :
       ProcError(pid, message) /\ UNCHANGED outside

\* the manager with two sessions
Next == NextFor(Ids, Cwds, Types, DataChunks, MaxAppends, MaxProcs)

Spec == Init /\ [][Next]_vars

\* one session with a longer and more varied output
NextBuf == NextFor({"s1"}, BufCwds, BufTypes, BufChunks, MaxBufAppends, MaxBufProcs)

SpecBuf == Init /\ [][NextBuf]_vars

\* write(id, data) when the backend's write throws: nothing catches it
WriteThrows(id, data) ==
  /\ ~disposed
  /\ Has(instances, id)
  /\ LET instance == Get(instances, id)
     IN Commit([Mgr EXCEPT !.calls = Append(@,
                  Call(IF instance.usePty THEN "write" ELSE "stdin.write",
                       instance.process, TRUE, data, <<0, 0>>))])
  /\ ret' = [Ret("write", id, "", FALSE, FALSE, <<>>) EXCEPT !.threw = TRUE]
  /\ UNCHANGED history

\* resize(id, cols, rows) when node-pty's resize throws
ResizeThrows(id, size) ==
  /\ ~disposed
  /\ Has(instances, id) /\ Get(instances, id).usePty
  /\ Commit([Mgr EXCEPT !.calls = Append(@,
               Call("resize", Get(instances, id).process, TRUE, <<>>, size))])
  /\ ret' = [Ret("resize", id, "", FALSE, FALSE, <<>>) EXCEPT !.threw = TRUE]
  /\ UNCHANGED history

\* kill(id) when the backend's kill throws: the entry is neither deleted nor
\* the observer notified, and no value is returned
KillThrows(id) ==
  /\ ~disposed
  /\ Has(instances, id)
  /\ Commit([Mgr EXCEPT !.calls = Append(@,
               Call("kill", Get(instances, id).process, TRUE, <<>>, <<0, 0>>))])
  /\ ret' = [Ret("kill", id, "", FALSE, FALSE, <<>>) EXCEPT !.threw = TRUE]
  /\ UNCHANGED history

\* one session on a backend whose write, resize and kill calls may throw
NextThrow ==
  \/ NextFor({"s1"}, Cwds, Types, DataChunks, MaxAppends, MaxProcs)
  \/ \E data \in WriteData : WriteThrows("s1", data) /\ UNCHANGED outside
  \/ \E size \in Sizes : ResizeThrows("s1", size) /\ UNCHANGED outside
  \/ KillThrows("s1") /\ UNCHANGED outside

SpecThrow == Init /\ [][NextThrow]_vars

(* ---------------- TerminalPanel: restoring a session's output ---------- *)
\* the session the panel shows (its terminalId prop)
PanelId == "s1"
\* output chunks that can be told apart in what the widget was given
PanelChunks == {Bytes(<<"a">>), Bytes(<<"b">>), Bytes(<<"d">>)}

\* a step of the renderer that does not reach the manager
PanelOnly(op) ==
  /\ Commit(Mgr)
  /\ ret' = Ret(op, PanelId, "", FALSE, FALSE, <<>>)
  /\ UNCHANGED history

\* the effect of the mounted panel: pty.onOutput(...) is subscribed (the
\* restore callback is set on a timer)
PanelMount ==
  /\ panel.phase = "unmounted"
  /\ PanelOnly("mount")
  /\ UNCHANGED <<ui, launch, host, main>>
  /\ panel' = [panel EXCEPT !.phase = "subscribed"]

\* a data event whose output message reaches the renderer: the subscribed
\* panel writes it to its widget when the id is its own
PanelOutput(pid, stream, data, limit) ==
  /\ data \notin panel.produced
  /\ ProcData(pid, stream, data, limit)
  /\ UNCHANGED <<ui, launch, host, main>>
  /\ panel' = [panel EXCEPT
       !.produced = @ \cup {data},
       !.written = IF panel.phase # "unmounted" /\ ~disposed /\ procs[pid].id = PanelId
                   THEN Norm(@ \o data) ELSE @]

\* await pty.exists(terminalId)
PanelExists ==
  /\ panel.phase = "subscribed"
  /\ ~disposed
  /\ Commit(Mgr)
  /\ ret' = Ret("exists", PanelId, "", exists(PanelId), FALSE, <<>>)
  /\ UNCHANGED history
  /\ UNCHANGED <<ui, launch, host, main>>
  /\ panel' = [panel EXCEPT !.phase = IF exists(PanelId) THEN "exists" ELSE "done"]

\* await pty.getOutputBuffer(terminalId); an empty or missing buffer ends it
PanelGetOutputBuffer ==
  /\ panel.phase = "exists"
  /\ GetOutputBuffer(PanelId)
  /\ UNCHANGED <<ui, launch, host, main>>
  /\ panel' = [panel EXCEPT
       !.snapshot = getOutputBuffer(PanelId),
       !.phase = IF getOutputBuffer(PanelId) # <<>> THEN "read" ELSE "done"]

\* terminal.write(buffer), and the clearOutputBuffer request leaves
PanelRestore ==
  /\ panel.phase = "read"
  /\ PanelOnly("restore")
  /\ UNCHANGED <<ui, launch, host, main>>
  /\ panel' = [panel EXCEPT !.written = Norm(@ \o panel.snapshot), !.phase = "restored"]

\* the manager handles the clearOutputBuffer request
PanelClear ==
  /\ panel.phase = "restored"
  /\ ClearOutputBuffer(PanelId)
  /\ UNCHANGED <<ui, launch, host, main>>
  /\ panel' = [panel EXCEPT !.phase = "done"]

\* the session exists before or while the panel mounts (workspace switch)
PanelCreate(cwd, type, nativeThrows, pipedThrows) ==
  /\ Create(PanelId, cwd, type, nativeThrows, pipedThrows, 1)
  /\ UNCHANGED outside

\* a session, its output, and a panel mounting for it
NextPanel ==
  \/ \E cwd \in Cwds, type \in Types, nt \in BOOLEAN, pt \in BOOLEAN :
       PanelCreate(cwd, type, nt, pt)
  \/ PanelMount
  \/ \E stream \in Streams(TRUE) \cup Streams(FALSE), data \in PanelChunks :
       PanelOutput(1, stream, data, MaxPanelAppends)
  \/ PanelExists
  \/ PanelGetOutputBuffer
  \/ PanelRestore
  \/ PanelClear

SpecPanel == Init /\ [][NextPanel]_vars

\* one id through several processes
NextLife == NextFor({"s1"}, Cwds, Types, DataChunks, MaxAppends, MaxLifeProcs)

SpecLife == Init /\ [][NextLife]_vars

\* the backend raises the exit event of every process that has not exited
SpecLifeFair ==
  /\ SpecLife
  /\ \A pid \in 1..MaxLifeProcs :
       WF_vars(\E code \in ExitCodes \cup {NoCode} : ProcExit(pid, code) /\ UNCHANGED outside)

\* one session whose output is made of escape-sequence bytes
NextFilter == NextFor({"s1"}, BufCwds, BufTypes, FilterChunks, MaxFilterAppends, MaxFilterProcs)

SpecFilter == Init /\ [][NextFilter]_vars

(* ------------- WorkspaceView and main: creating and restarting --------- *)
\* processes one terminal goes through in the renderer's hands
MaxAgentProcs == 2
\* processes spawned on a host whose files and environment vary
MaxHostProcs == 1

\* executable and envWithUtf8 as each spawn of the step was given them
spawnOptions(h, type, shellOverride, codeAgentType, cs) ==
  LET spawns == SelectSeq(cs, LAMBDA c : c.fn \in {"pty.spawn", "spawn"})
  IN [k \in 1..Len(spawns) |->
        [fn |-> spawns[k].fn,
         file |-> executable(h, type, shellOverride, codeAgentType),
         env |-> envWithUtf8(h, spawns[k].fn = "pty.spawn")]]

\* create({ id, cwd, type, shell, codeAgentType })
CreateWith(id, cwd, type, shellOverride, codeAgentType, nativeThrows, pipedThrows, maxProcs) ==
  /\ Create(id, cwd, type, nativeThrows, pipedThrows, maxProcs)
  /\ launch' = spawnOptions(host, type, shellOverride, codeAgentType, calls')

\* restart(id, cwd, shell, codeAgentType): create() gets the old session's type
RestartWith(id, cwd, shellOverride, codeAgentType, nativeThrows, pipedThrows, maxProcs) ==
  /\ Restart(id, cwd, nativeThrows, pipedThrows, maxProcs)
  /\ launch' = IF Has(instances, id)
               THEN spawnOptions(host, Get(instances, id).type, shellOverride,
                                 codeAgentType, calls')
               ELSE <<>>

\* ipcMain.handle('pty:restart', async (_event, id, cwd, shell) => ...): what
\* the renderer sends after shell is not taken
pty_restart(id, cwd, shellOverride, codeAgentType, nativeThrows, pipedThrows, maxProcs) ==
  RestartWith(id, cwd, shellOverride, "undefined", nativeThrows, pipedThrows, maxProcs)

\* addTerminal(workspace.id, 'claude-code', agentType), then pty.create
handleAgentSelect(id, cwd, agentType, nativeThrows, pipedThrows, maxProcs) ==
  /\ ui[id] = NoTerminal
  /\ CreateWith(id, cwd, "claude-code", "", agentType, nativeThrows, pipedThrows, maxProcs)
  /\ ui' = [ui EXCEPT ![id] = [type |-> "claude-code", codeAgentType |-> agentType,
                               cwd |-> cwd]]
  /\ UNCHANGED <<panel, host, main>>

\* addTerminal(workspace.id, 'terminal'), then pty.create
createTerminal(id, cwd, nativeThrows, pipedThrows, maxProcs) ==
  /\ ui[id] = NoTerminal
  /\ CreateWith(id, cwd, "terminal", "", "undefined", nativeThrows, pipedThrows, maxProcs)
  /\ ui' = [ui EXCEPT ![id] = [type |-> "terminal", codeAgentType |-> "undefined",
                               cwd |-> cwd]]
  /\ UNCHANGED <<panel, host, main>>

\* cwd = await pty.getCwd(id) || terminal.cwd, then
\* pty.restart(id, cwd, shell, terminal.codeAgentType) and updateTerminalCwd
handleRestart(id, nativeThrows, pipedThrows) ==
  /\ ui[id] # NoTerminal
  /\ LET cwd == IF getCwd(id) # "null" THEN getCwd(id) ELSE ui[id].cwd
     IN /\ pty_restart(id, cwd, "", ui[id].codeAgentType, nativeThrows, pipedThrows,
                       MaxAgentProcs)
        /\ ui' = [ui EXCEPT ![id].cwd = cwd]
  /\ UNCHANGED <<panel, host, main>>

\* pty.kill(id), then removeTerminal(id)
handleConfirmClose(id) ==
  /\ ui[id] # NoTerminal
  /\ Kill(id)
  /\ ui' = [ui EXCEPT ![id] = NoTerminal]
  /\ UNCHANGED <<panel, launch, host, main>>

\* the terminals of a workspace in the renderer's hands
NextAgent ==
  \/ \E cwd \in Cwds, agentType \in CodeAgentTypes, nt \in BOOLEAN, pt \in BOOLEAN :
       handleAgentSelect("s1", cwd, agentType, nt, pt, MaxAgentProcs)
  \/ \E cwd \in Cwds, nt \in BOOLEAN, pt \in BOOLEAN : createTerminal("s1", cwd, nt, pt, MaxAgentProcs)
  \/ \E nt \in BOOLEAN, pt \in BOOLEAN : handleRestart("s1", nt, pt)
  \/ handleConfirmClose("s1")
  \/ \E pid \in 1..MaxAgentProcs, code \in ExitCodes \cup {NoCode} :
       ProcExit(pid, code) /\ UNCHANGED outside

SpecAgent == Init /\ [][NextAgent]_vars

\* the application starts on any of the hosts
InitHost == \E h \in Hosts : InitOn(h)

\* a first terminal of either kind on each host
NextHost ==
  \/ \E agentType \in CodeAgentTypes, nt \in BOOLEAN, pt \in BOOLEAN :
       handleAgentSelect("s1", "/tmp", agentType, nt, pt, MaxHostProcs)
  \/ \E nt \in BOOLEAN, pt \in BOOLEAN : createTerminal("s1", "/tmp", nt, pt, MaxHostProcs)

SpecHost == InitHost /\ [][NextHost]_vars

(* ------------------- main: the window and the blocker ------------------ *)
\* windows created in one run of the application
MaxWindows == 2
\* processes one window's manager spawns
MaxMainProcs == 2

\* a step of main that is not a call of the manager
MainOnly(op) ==
  /\ ret' = Ret(op, "", "", FALSE, FALSE, <<>>)
  /\ sent' = <<>>
  /\ calls' = <<>>
  /\ UNCHANGED <<panel, ui, launch, host>>

\* mainWindow.on('close'): ptyManager?.dispose()
WindowClose ==
  /\ main.window = "open"
  /\ Dispose
  /\ main' = [main EXCEPT !.window = "closing"]
  /\ UNCHANGED <<panel, ui, launch, host>>

\* mutant: the blocker is stopped and its id kept
WindowClosed_keepsId ==
  /\ main.window = "closing"
  /\ MainOnly("closed")
  /\ main' = [main EXCEPT !.window = "none",
                          !.blockers = @ \ {main.powerSaveBlockerId}]
  /\ UNCHANGED <<instances, ptyAvailable, disposed, procs, history>>

\* mainWindow.on('closed'): mainWindow = null, ptyManager = null, and the
\* blocker is stopped; powerSaveBlockerId 0 is null
WindowClosed ==
  /\ main.window = "closing"
  /\ MainOnly("closed")
  /\ main' = [main EXCEPT !.window = "none",
                          !.blockers = @ \ {main.powerSaveBlockerId},
                          !.powerSaveBlockerId = 0]
  /\ UNCHANGED <<instances, ptyAvailable, disposed, procs, history>>

\* app.on('activate') with no window: createWindow(). powerSaveBlocker.start
\* returns an id it has not returned before. The new PtyManager starts empty;
\* the processes of the former manager report to that one, not to this one
createWindow ==
  /\ main.window = "none"
  /\ main.started < MaxWindows
  /\ MainOnly("createWindow")
  /\ main' = IF main.powerSaveBlockerId = 0
             THEN [window |-> "open", powerSaveBlockerId |-> main.started + 1,
                   started |-> main.started + 1,
                   blockers |-> main.blockers \cup {main.started + 1}]
             ELSE [main EXCEPT !.window = "open"]
  /\ instances' = <<>>
  /\ disposed' = FALSE
  /\ procs' = <<>>
  /\ history' = [i \in Ids |-> <<>>]
  /\ UNCHANGED ptyAvailable

\* sessions come and go while windows are opened and closed
NextMain ==
  \/ \E id \in Ids, cwd \in BufCwds, type \in BufTypes, nt \in BOOLEAN, pt \in BOOLEAN :
       Create(id, cwd, type, nt, pt, MaxMainProcs) /\ UNCHANGED outside
  \/ \E id \in Ids : Kill(id) /\ UNCHANGED outside
  \/ \E pid \in 1..MaxMainProcs, code \in ExitCodes \cup {NoCode} :
       ProcExit(pid, code) /\ UNCHANGED outside
  \/ WindowClose
  \/ WindowClosed
  \/ createWindow

SpecMain == Init /\ [][NextMain]_vars

(* ------------------------------- claims ------------------------------- *)
Inst(i) == Get(instances, i)

RECURSIVE SumLengths(_)
SumLengths(chunks) ==
  CHOOSE r \in
    {IF q = <<>> THEN 0 ELSE length(q[1]) + SumLengths(Tail(q)) : q \in {chunks}} : TRUE

ThrewIn(cs, fn) == \E k \in 1..Len(cs) : cs[k].fn = fn /\ cs[k].threw
CountMsgs(ms) == {k \in 1..Len(ms) : ms[k].channel = "count"}
IsSuffix(a, b) == Len(a) <= Len(b) /\ SubSeq(b, Len(b) - Len(a) + 1, Len(b)) = a
Elems(q) == {q[k] : k \in 1..Len(q)}

\* C1: a restart that returns true leaves getOutputBuffer(id) equal to what
\* it returned just before the restart, whatever the earlier appends, trims
\* and clears were.
C1_RestartKeepsSnapshot ==
  [][\A i \in Ids :
       (ret'.op = "restart" /\ ret'.id = i /\ ret'.ok)
         => /\ exists(i) /\ exists(i)'
            /\ getOutputBuffer(i)' = getOutputBuffer(i)]_vars

\* a restart succeeded on a session whose buffer had been trimmed and still
\* holds output, part of it removed by the restoration filter
C1_Witness ==
  /\ ret.op = "restart" /\ ret.ok /\ exists(ret.id)
  /\ Len(history[ret.id]) > Len(Inst(ret.id).outputBuffer)
  /\ getOutputBuffer(ret.id) # <<>>
  /\ getOutputBuffer(ret.id) # join(Inst(ret.id).outputBuffer)

C3_CreateFailsOnlyIfBothFail ==
  [][\A i \in Ids :
       (ret'.op = "create" /\ ret'.id = i /\ ~exists(i))
         => /\ ~ret'.ok =>
                 /\ ThrewIn(calls', "spawn")
                 /\ ptyAvailable => ThrewIn(calls', "pty.spawn")
                 /\ ~exists(i)'
                 /\ instances' = instances
                 /\ CountMsgs(sent') = {}
            /\ ret'.ok => exists(i)']_vars

\* create failed after both backends threw
C3_Witness ==
  /\ ret.op = "create" /\ ~ret.ok
  /\ ThrewIn(calls, "pty.spawn") /\ ThrewIn(calls, "spawn")

\* C4: kill on a registered id kills its process, removes the id, notifies
\* the new session count and returns true; write and kill on an id that is
\* not registered do nothing, and that kill returns false.
C4_KillDeregisters ==
  [][\A i \in Ids :
       /\ (ret'.op = "kill" /\ ret'.id = i /\ exists(i))
            => /\ ret'.ok
               /\ ~exists(i)'
               /\ calls' = <<Call("kill", Inst(i).process, FALSE, <<>>, <<0, 0>>)>>
               /\ procs'[Inst(i).process].status = "killed"
               /\ Len(instances') = Len(instances) - 1
               /\ sent' = <<Msg("count", "", <<>>, Len(instances'))>>
       /\ (ret'.op \in {"kill", "write"} /\ ret'.id = i /\ ~exists(i))
            => /\ ~ret'.ok
               /\ calls' = <<>> /\ sent' = <<>>
               /\ UNCHANGED <<instances, procs, ptyAvailable, disposed>>]_vars

\* a session was killed while another one stays registered
C4_Witness ==
  /\ ret.op = "kill" /\ ret.ok /\ ~exists(ret.id)
  /\ Len(instances) = 1
  /\ \E p \in 1..Len(procs) : procs[p].id = ret.id /\ procs[p].status = "killed"

\* C5: for an id that is not registered, getCwd and getOutputBuffer return
\* null, kill and restart return false, and write, resize, kill, restart and
\* clearOutputBuffer change neither the registry nor a buffer, spawn nothing
\* and notify nothing.
C5_UnknownIdNoOp ==
  [][\A i \in Ids :
       (~exists(i) /\ ret'.id = i /\
        ret'.op \in {"write", "resize", "kill", "restart", "clearOutputBuffer",
                     "getOutputBuffer"})
         => /\ getCwd(i) = "null"
            /\ ret'.op = "getOutputBuffer" => ret'.null
            /\ ret'.op \in {"kill", "restart"} => ~ret'.ok
            /\ calls' = <<>> /\ sent' = <<>>
            /\ UNCHANGED <<instances, procs, ptyAvailable, disposed>>]_vars

\* restart was refused for an unknown id while another session holds output
C5_Witness ==
  /\ ret.op = "restart" /\ ~ret.ok /\ ~exists(ret.id) /\ calls = <<>>
  /\ \E j \in Ids : exists(j) /\ Inst(j).outputBuffer # <<>>

\* C6: after a restart that returns true the id is registered with the new
\* cwd and the kind it had, the old process has been killed, and the
\* registered process is one spawned by this restart.
C6_RestartReplacesProcess ==
  [][\A i \in Ids :
       (ret'.op = "restart" /\ ret'.id = i /\ ret'.ok)
         => /\ exists(i) /\ exists(i)'
            /\ getCwd(i)' = ret'.cwd
            /\ Get(instances', i).type = Inst(i).type
            /\ procs'[Inst(i).process].status = "killed"
            /\ \E k \in 1..Len(calls') :
                 calls'[k].fn = "kill" /\ calls'[k].pid = Inst(i).process
            /\ Len(procs') = Len(procs) + 1
            /\ Get(instances', i).process = Len(procs')
            /\ procs'[Len(procs')].status = "running"
            /\ procs'[Len(procs')].id = i]_vars

\* an agent session was restarted into another directory
C6_Witness ==
  /\ ret.op = "restart" /\ ret.ok /\ exists(ret.id)
  /\ Inst(ret.id).type = "claude-code"
  /\ \E k \in 1..Len(calls) : calls[k].fn = "kill"
  /\ Inst(ret.id).cwd = "/work"
  /\ \E p \in 1..Len(procs) : procs[p].id = ret.id /\ procs[p].status = "killed"

\* C7: a restart of a registered id whose re-creation fails on both backends
\* returns false and leaves the id unregistered.
C7_FailedRestartUnregisters ==
  [][\A i \in Ids :
       (ret'.op = "restart" /\ ret'.id = i /\ exists(i))
         => /\ ThrewIn(calls', "spawn") => ~ret'.ok
            /\ ~ret'.ok => (~exists(i)' /\ getCwd(i)' = "null")]_vars

\* the re-creation of a registered session failed
C7_Witness ==
  /\ ret.op = "restart" /\ ~ret.ok /\ ThrewIn(calls, "spawn")
  /\ \E k \in 1..Len(calls) : calls[k].fn = "kill"

\* C8: while the chunks appended since creation or the last clear total at
\* most the high-water mark, the buffer holds exactly those chunks, in order,
\* and its concatenation is theirs.
C8_NoDropBelowHighWater ==
  \A i \in Ids :
    (exists(i) /\ SumLengths(history[i]) <= HighWater)
      => /\ Inst(i).outputBuffer = history[i]
         /\ join(Inst(i).outputBuffer) = join(history[i])

\* two chunks that total exactly the high-water mark
C8_Witness ==
  \E i \in Ids :
    /\ exists(i) /\ ret.op = "data" /\ ret.id = i
    /\ Len(history[i]) >= 2 /\ SumLengths(history[i]) = HighWater

\* C9 as stated: after an append that takes the size beyond the high-water
\* mark, the size is between the low-water and the high-water mark and every
\* retained chunk is an appended chunk.
C9_Original ==
  [][\A i \in Ids :
       (ret'.op = "data" /\ ret'.id = i /\ exists(i) /\
        Inst(i).outputBufferSize + length(ret'.text) > HighWater)
         => /\ Get(instances', i).outputBufferSize <= HighWater
            /\ Get(instances', i).outputBufferSize >= LowWater
            /\ Elems(Get(instances', i).outputBuffer) \subseteq Elems(history'[i])]_vars

\* C9 (amended): after such an append the size is at most the low-water mark
\* unless the chunk just appended is the only one left; it is at most the
\* high-water mark when that chunk is; the retained chunks are the last
\* chunks of the buffer as it was with the new chunk added, none of them split.
C9_TrimResult ==
  [][\A i \in Ids :
       (ret'.op = "data" /\ ret'.id = i /\ exists(i) /\
        Inst(i).outputBufferSize + length(ret'.text) > HighWater)
         => LET after == Get(instances', i)
            IN /\ after.outputBufferSize <= LowWater \/ Len(after.outputBuffer) = 1
               /\ length(ret'.text) <= HighWater => after.outputBufferSize <= HighWater
               /\ after.outputBuffer # <<>>
               /\ IsSuffix(after.outputBuffer, Append(Inst(i).outputBuffer, ret'.text))
               /\ Elems(after.outputBuffer) \subseteq Elems(history'[i])
               /\ after.outputBufferSize = SumLengths(after.outputBuffer)]_vars

\* a trim left two chunks, well under the low-water mark
C9_Witness ==
  \E i \in Ids :
    /\ ret.op = "data" /\ ret.id = i /\ exists(i)
    /\ SumLengths(history[i]) > HighWater
    /\ Len(Inst(i).outputBuffer) = 2
    /\ Len(history[i]) = 3
    /\ Inst(i).outputBufferSize < LowWater

\* C10: clearOutputBuffer on a registered id empties the buffer and resets
\* the size, and changes nothing else of the session; afterwards the buffer
\* holds only chunks appended after the clear.
C10_ClearEmpties ==
  [][\A i \in Ids :
       /\ (ret'.op = "clearOutputBuffer" /\ ret'.id = i /\ exists(i))
            => /\ exists(i)'
               /\ getOutputBuffer(i)' = <<>>
               /\ Get(instances', i) =
                    [Inst(i) EXCEPT !.outputBuffer = <<>>, !.outputBufferSize = 0]
               /\ calls' = <<>> /\ sent' = <<>>
               /\ UNCHANGED <<procs, ptyAvailable, disposed>>
       /\ exists(i)' => IsSuffix(Get(instances', i).outputBuffer, history'[i])
       /\ (ret'.op = "data" /\ ret'.id = i /\ exists(i) /\ history[i] = <<>>)
            => Get(instances', i).outputBuffer = <<ret'.text>>]_vars

\* a clear has just run on a registered session with a running process
C10_Witness ==
  /\ ret.op = "clearOutputBuffer" /\ exists(ret.id)
  /\ Inst(ret.id).outputBuffer = <<>> /\ Inst(ret.id).outputBufferSize = 0
  /\ ~Inst(ret.id).usePty
  /\ procs[Inst(ret.id).process].status = "running"
  /\ Len(procs) = 2

\* the sequences the restoration filter is to remove
Designated ==
  {ClearScreen, ClearScrollback, CursorHome, AltScreenOn, AltScreenOff, ResetTerminal}

\* the occurrences of the designated sequences (they cannot overlap: each
\* starts with its only ESC) removed from a string, every other byte kept
WithoutDesignated(str) == Norm(RemoveAll(str, Designated))

\* C11 as stated: getOutputBuffer(id) is the concatenation of the retained
\* chunks with exactly the occurrences of the designated sequences removed,
\* every other byte left in place and in order.
C11_FilterRemovesExactly ==
  \A i \in Ids :
    exists(i) => getOutputBuffer(i) = WithoutDesignated(join(Inst(i).outputBuffer))

\* the output notifications among the messages of one step
OutMsgs(ms) == SelectSeq(ms, LAMBDA x : x.channel = "pty:output")

\* C12: when the node-pty spawn throws in a create (or the create inside a
\* restart) and the child_process spawn succeeds, the call returns true, the
\* id is registered as a piped session on the process just spawned, and the
\* only output message of the call, sent before that process had any chance to
\* produce data, is the degraded-mode notice for that id.
C12_FallbackNoticeFirst ==
  [][\A i \in Ids :
       (/\ ret'.op \in {"create", "restart"} /\ ret'.id = i
        /\ ThrewIn(calls', "pty.spawn") /\ ~ThrewIn(calls', "spawn"))
       => /\ ret'.ok
          /\ Has(instances', i)
          /\ ~Get(instances', i).usePty
          /\ Len(procs') = Len(procs) + 1
          /\ Get(instances', i).process = Len(procs')
          /\ procs'[Len(procs')] = [id |-> i, usePty |-> FALSE, status |-> "running"]
          /\ OutMsgs(sent') = <<Msg("pty:output", i, DegradedNotice, 0)>>]_vars

C12_Witness ==
  /\ ret.op = "create" /\ ret.ok
  /\ ThrewIn(calls, "pty.spawn")
  /\ Has(instances, ret.id) /\ ~Get(instances, ret.id).usePty
  /\ OutMsgs(sent) = <<Msg("pty:output", ret.id, DegradedNotice, 0)>>

\* C13: dispose() calls kill on the process of every session registered when
\* it starts, once each, although each kill removes an entry of the Map being
\* iterated; none of those processes is left running and the registry is empty
\* when dispose returns.
C13_DisposeKillsAll ==
  [][ret'.op = "dispose"
     => /\ instances' = <<>>
        /\ Len(calls') = Len(instances)
        /\ \A k \in 1..Len(instances) :
             /\ calls'[k].fn = "kill"
             /\ calls'[k].pid = instances[k].value.process
             /\ procs'[instances[k].value.process].status # "running"]_vars

C13_Witness ==
  /\ ret.op = "dispose"
  /\ Len(calls) = 2
  /\ instances = <<>>

\* C14 as stated: once dispose() has been called no notification of any kind
\* (output, exit, session count) is delivered, neither by the kills of dispose
\* nor by later data and exit events.
C14_Original == disposed => sent = <<>>

\* C14, amended: once dispose() has been called no output and no exit message
\* is delivered; the session-count observer is still called, once for each
\* session dispose kills and once for each later exit event, and a later data
\* event delivers nothing.
C14_DisposeSuppressesWindowMessages ==
  disposed =>
    /\ \A k \in 1..Len(sent) : sent[k].channel = "count"
    /\ ret.op = "dispose" => Len(sent) = Len(calls)
    /\ ret.op = "exit" => sent = <<Msg("count", "", <<>>, Len(instances))>>
    /\ ret.op = "data" => sent = <<>>

C14_Witness ==
  /\ disposed
  /\ ret.op = "exit"
  /\ sent = <<Msg("count", "", <<>>, 0)>>
  /\ \E p \in 1..Len(procs) : procs[p].status = "killed"

\* the processes spawned for an id that were neither killed nor have exited
Live(i) == {p \in 1..Len(procs) : procs[p].id = i /\ procs[p].status = "running"}

\* C15 as stated: in every reachable state exists(id) is true exactly when the
\* registry holds id, and no id has more than one live process.
C15_OneLiveProcessPerId ==
  \A i \in Ids :
    /\ exists(i) <=> i \in Keys(instances)
    /\ Cardinality(Live(i)) <= 1

\* C16: every data event (onData of a pty, stdout or stderr of a piped
\* process) is forwarded in its own handler run, once and unchanged, as the
\* output message of the process's id, so the messages of an id follow the
\* order of the events of each stream; the chunk goes to the end of the
\* session's buffer, and the retained chunks are always the last chunks
\* delivered for the session, in the order of their delivery.
C16_OutputInOrder ==
  [][\A i \in Ids :
       /\ (ret'.op = "data" /\ ret'.id = i)
          => /\ ~disposed => sent' = <<Msg("pty:output", i, ret'.text, 0)>>
             /\ Has(instances, i)
                => /\ Has(instances', i)
                   /\ Get(instances', i).outputBuffer # <<>>
                   /\ IsSuffix(Get(instances', i).outputBuffer,
                               Append(Get(instances, i).outputBuffer, ret'.text))
                   /\ history'[i] = Append(history[i], ret'.text)
       /\ Has(instances', i)
          => IsSuffix(Get(instances', i).outputBuffer, history'[i])]_vars

C16_Witness ==
  /\ ret.op = "data" /\ ret.stream = "stderr"
  /\ Has(instances, ret.id)
  /\ Len(Inst(ret.id).outputBuffer) = 2
  /\ Len(history[ret.id]) = 3
  /\ Inst(ret.id).outputBuffer[1] # Inst(ret.id).outputBuffer[2]
  /\ sent = <<Msg("pty:output", ret.id, Inst(ret.id).outputBuffer[2], 0)>>

\* C17 as stated: no public operation lets an exception reach its caller,
\* also when the backend's spawn, write, resize or kill call throws.
C17_NoThrow == ~ret.threw

\* C18 as stated: when an append takes the size above 200,000, oldest whole
\* chunks are removed until the size is at or under 160,000; the retained
\* chunks are a contiguous suffix of the sequence before the trim and the
\* chunk just appended is retained.
C18_Original ==
  [][\A i \in Ids :
       (ret'.op = "data" /\ ret'.id = i /\ exists(i) /\
        Inst(i).outputBufferSize + length(ret'.text) > HighWater)
         => LET after == Get(instances', i)
            IN /\ after.outputBuffer # <<>>
               /\ after.outputBufferSize <= LowWater
               /\ IsSuffix(after.outputBuffer, Append(Inst(i).outputBuffer, ret'.text))
               /\ after.outputBuffer[Len(after.outputBuffer)] = ret'.text]_vars

\* C18 (amended): such an append removes oldest whole chunks one at a time
\* and stops as soon as the size is at or under 160,000 or only the chunk just
\* appended is left, whichever comes first; the retained chunks are a
\* contiguous suffix of the sequence before the trim, ending with the chunk
\* just appended, and no chunk is removed that did not have to be.
C18_TrimKeepsNewest ==
  [][\A i \in Ids :
       (ret'.op = "data" /\ ret'.id = i /\ exists(i) /\
        Inst(i).outputBufferSize + length(ret'.text) > HighWater)
         => LET before == Append(Inst(i).outputBuffer, ret'.text)
                after == Get(instances', i).outputBuffer
            IN /\ after # <<>>
               /\ IsSuffix(after, before)
               /\ after[Len(after)] = ret'.text
               /\ SumLengths(after) <= LowWater \/ after = <<ret'.text>>
               /\ Len(after) < Len(before)
                  => SumLengths(SubSeq(before, Len(before) - Len(after), Len(before)))
                       > LowWater]_vars

\* the spec's scenario: 150,000 then 60,000 leaves exactly the second chunk
C18_Witness ==
  /\ ret.op = "data" /\ exists("s1")
  /\ history["s1"] = <<ChunkA, ChunkB>>
  /\ Inst("s1").outputBuffer = <<ChunkB>>

\* C19: in every reachable state the outputBufferSize of every registered
\* session is the sum of the lengths of the chunks its buffer retains.
C19_SizeIsSumOfChunks ==
  \A i \in Ids :
    Has(instances, i) => Inst(i).outputBufferSize = SumLengths(Inst(i).outputBuffer)

\* a restart handed over a trimmed buffer of two chunks
C19_Witness ==
  /\ ret.op = "restart" /\ ret.ok
  /\ Has(instances, ret.id)
  /\ Len(Inst(ret.id).outputBuffer) = 2
  /\ Len(history[ret.id]) = 3
  /\ Inst(ret.id).outputBufferSize = SumLengths(Inst(ret.id).outputBuffer)

\* the calls of one step that spawn on the given backend
SpawnCalls(cs, fn) == {k \in 1..Len(cs) : cs[k].fn = fn}

\* C20: the native-available flag never goes from false to true; a node-pty
\* spawn that throws sets it to false; while it is false no call attempts a
\* node-pty spawn, and every create, the one inside restart included, that
\* registers a session registers a piped one.
C20_NativeStaysOff ==
  [][/\ ~ptyAvailable => ~ptyAvailable'
     /\ ThrewIn(calls', "pty.spawn") => ~ptyAvailable'
     /\ ~ptyAvailable => SpawnCalls(calls', "pty.spawn") = {}
     /\ \A i \in Ids :
          (~ptyAvailable /\ ret'.op \in {"create", "restart"} /\ ret'.id = i /\ ret'.ok)
            => /\ Has(instances', i) /\ ~Get(instances', i).usePty
               /\ SpawnCalls(calls', "spawn") # {}]_vars

\* a session started on node-pty was restarted on the fallback after a later
\* node-pty spawn had thrown
C20_Witness ==
  /\ ~ptyAvailable
  /\ ret.op = "restart" /\ ret.ok
  /\ ~ThrewIn(calls, "pty.spawn")
  /\ ~Inst(ret.id).usePty
  /\ \E p \in 1..Len(procs) : procs[p].usePty

\* C21 as stated: the exit event of a process that was killed and whose id
\* has since been given to a new session (by restart) does not deregister that
\* session: the registry entry of the id stays as it is.
C21_StaleExitKeepsSession ==
  [][\A i \in Ids :
       (/\ ret'.op = "exit" /\ ret'.id = i
        /\ Has(instances, i)
        /\ Inst(i).process # ret'.pid
        /\ procs[Inst(i).process].status = "running")
       => /\ Has(instances', i)
          /\ Get(instances', i) = Inst(i)]_vars

\* how many times a byte was given to the panel's widget
TimesWritten(b) == Cardinality({k \in 1..Len(panel.written) : panel.written[k].c = b})

\* C22 as stated: whatever the interleaving of data events with the steps of
\* the restoration protocol, no output chunk of the session is written to the
\* panel's widget more than once.
C22_WrittenAtMostOnce ==
  \A chunk \in PanelChunks : TimesWritten(chunk[1].c) <= 1

\* C23 as stated: every process spawned that has neither exited nor been
\* passed to kill is the process of the registry entry of its id, so kill(id)
\* and dispose() reach it.
C23_LiveProcessRegistered ==
  \A p \in 1..Len(procs) :
    procs[p].status = "running"
      => Has(instances, procs[p].id) /\ Inst(procs[p].id).process = p

\* C24: when the process of a registered session exits on its own, the
\* consumer is first sent exit(id, code) with the backend's exit code (0 when
\* the piped backend reports none), the id is removed from the registry, and
\* the session-count observer is then called with the reduced count; nothing
\* else is sent.
C24_ExitOrder ==
  [][\A i \in Ids :
       (/\ ret'.op = "exit" /\ ret'.id = i
        /\ ~disposed
        /\ Has(instances, i)
        /\ Inst(i).process = ret'.pid
        /\ procs[ret'.pid].status = "running")
       => /\ sent' = <<Msg("pty:exit", i, <<>>, IF ret'.code = NoCode THEN 0 ELSE ret'.code),
                       Msg("count", "", <<>>, Len(instances) - 1)>>
          /\ ~Has(instances', i)
          /\ Len(instances') = Len(instances) - 1
          /\ procs'[ret'.pid].status = "exited"]_vars

\* a piped process without an exit code exits while another session stays
C24_Witness ==
  /\ ret.op = "exit" /\ ret.code = NoCode
  /\ ~disposed
  /\ sent = <<Msg("pty:exit", ret.id, <<>>, 0), Msg("count", "", <<>>, 1)>>
  /\ ~Has(instances, ret.id)
  /\ Len(instances) = 1

\* C25 as stated: a data event of a process that was killed and whose id now
\* belongs to a new session (after restart) is not appended to that session's
\* buffer.
C25_StaleDataNotBuffered ==
  [][\A i \in Ids :
       (/\ ret'.op = "data" /\ ret'.id = i
        /\ Has(instances, i)
        /\ Inst(i).process # ret'.pid)
       => /\ Has(instances', i)
          /\ Get(instances', i).outputBuffer = Inst(i).outputBuffer]_vars

\* the exit messages among the messages of one step
ExitMsgs(ms) == SelectSeq(ms, LAMBDA x : x.channel = "pty:exit")

\* C26: kill(id) on a registered id removes the entry at once and leaves the
\* process killed but not yet exited, sending no exit message itself; exit
\* messages are sent only by exit events, one per event while the manager is
\* not disposed, for the id and with the code of the process; and the exit
\* event of every killed process eventually fires, after which it cannot fire
\* again.
C26_KillFireAndForget ==
  /\ [][\A i \in Ids :
          (ret'.op = "kill" /\ ret'.id = i /\ Has(instances, i))
          => /\ ~Has(instances', i)
             /\ procs'[Inst(i).process].status = "killed"
             /\ ExitMsgs(sent') = <<>>]_vars
  /\ [][/\ ExitMsgs(sent') # <<>> => ret'.op = "exit"
        /\ (ret'.op = "exit" /\ ~disposed)
           => /\ ExitMsgs(sent') =
                   <<Msg("pty:exit", procs[ret'.pid].id, <<>>,
                         IF ret'.code = NoCode THEN 0 ELSE ret'.code)>>
              /\ procs[ret'.pid].status # "exited"
              /\ procs'[ret'.pid].status = "exited"]_vars
  /\ \A p \in 1..MaxLifeProcs :
       (p <= Len(procs) /\ procs[p].status = "killed")
         ~> (p <= Len(procs) /\ procs[p].status = "exited")

\* kill has just returned and the process it killed has not exited yet
C26_Witness ==
  /\ ret.op = "kill" /\ ret.ok
  /\ ~disposed
  /\ ~Has(instances, ret.id)
  /\ \E p \in 1..Len(procs) : procs[p].id = ret.id /\ procs[p].status = "killed"

\* C27: a step that changes the number of registered sessions calls the
\* session-count observer, and the last count a step passes to the observer
\* is the number of sessions registered when the step ends; so, between
\* steps, the count passed last equals the size of the registry, after
\* creates, kills, restarts, dispose and exit events.
C27_LastCountIsRegistrySize ==
  [][LET counts == SelectSeq(sent', LAMBDA x : x.channel = "count")
     IN /\ Len(instances') # Len(instances) => counts # <<>>
        /\ counts # <<>> => counts[Len(counts)].num = Len(instances')]_vars

\* a restart of the only session told the observer 0 and then 1
C27_Witness ==
  /\ ret.op = "restart" /\ ret.ok
  /\ Len(instances) = 1
  /\ SelectSeq(sent, LAMBDA x : x.channel = "count")
       = <<Msg("count", "", <<>>, 0), Msg("count", "", <<>>, 1)>>

\* C28: the message of a data event carries the chunk as the backend gave
\* it, clear and reset sequences included, and the chunk is stored unfiltered;
\* getOutputBuffer changes nothing of the manager (chunks, running size,
\* registry, processes), sends nothing, and what it returned once it would
\* return again.
C28_FilterOnSnapshotOnly ==
  [][\A i \in Ids :
       /\ (ret'.op = "data" /\ ret'.id = i /\ ~disposed)
          => /\ sent' = <<Msg("pty:output", i, ret'.text, 0)>>
             /\ Has(instances, i)
                => LET buffer == Get(instances', i).outputBuffer
                   IN buffer # <<>> /\ buffer[Len(buffer)] = ret'.text
       /\ (ret'.op = "getOutputBuffer" /\ ret'.id = i)
          => /\ instances' = instances
             /\ procs' = procs
             /\ disposed' = disposed
             /\ sent' = <<>> /\ calls' = <<>>
             /\ ret'.text = getOutputBuffer(i)
             /\ getOutputBuffer(i)' = ret'.text]_vars

\* a snapshot without the clear-screen sequence that a stored chunk still has
C28_Witness ==
  /\ ret.op = "getOutputBuffer"
  /\ Has(instances, ret.id)
  /\ ChunkCls \in Elems(Inst(ret.id).outputBuffer)
  /\ ret.text # Norm(join(Inst(ret.id).outputBuffer))
  /\ length(ret.text) = Inst(ret.id).outputBufferSize - length(ClearScreen)

\* C29 as stated: what getOutputBuffer returns holds no occurrence of a
\* designated sequence; equivalently, filtering it again changes nothing.
C29_NoDesignatedLeft ==
  \A i \in Ids :
    exists(i) => /\ WithoutDesignated(getOutputBuffer(i)) = getOutputBuffer(i)
                 /\ filterClearScreenCodes(getOutputBuffer(i)) = getOutputBuffer(i)

\* C30: the error event of a piped session's process sends one output
\* message for the session's id whose text is the error message in its
\* "[Error: ...]" frame, and leaves the registry, the session's record and
\* the processes as they were: the session stays registered.
C30_PipedErrorKeepsSession ==
  [][\A i \in Ids :
       (ret'.op = "error" /\ ret'.id = i)
       => /\ ~procs[ret'.pid].usePty
          /\ ~disposed => sent' = <<Msg("pty:output", i, ErrorOutput(ret'.text), 0)>>
          /\ instances' = instances
          /\ procs' = procs
          /\ Has(instances, i) => Has(instances', i)]_vars

C30_Witness ==
  /\ ret.op = "error"
  /\ Has(instances, ret.id)
  /\ Inst(ret.id).process = ret.pid
  /\ ~Inst(ret.id).usePty
  /\ sent = <<Msg("pty:output", ret.id, ErrorOutput(ret.text), 0)>>
  /\ length(sent[1].data) = length(ret.text) + 13

C32_ResizeForwardsToNativeOnly ==
  [][\A i \in Ids :
       (ret'.op = "resize" /\ ret'.id = i /\ ~ret'.threw)
       => /\ instances' = instances
          /\ procs' = procs
          /\ ptyAvailable' = ptyAvailable /\ disposed' = disposed
          /\ sent' = <<>>
          /\ IF Has(instances, i) /\ Inst(i).usePty
             THEN /\ Len(calls') = 1
                  /\ calls'[1].fn = "resize"
                  /\ calls'[1].pid = Inst(i).process
                  /\ calls'[1].size \in Sizes
             ELSE calls' = <<>>]_vars

\* a native session has just been resized while a piped one is registered
C32_Witness ==
  /\ ret.op = "resize"
  /\ Has(instances, ret.id) /\ Inst(ret.id).usePty
  /\ calls = <<Call("resize", Inst(ret.id).process, FALSE, <<>>, <<80, 24>>)>>
  /\ \E b \in Ids : Has(instances, b) /\ ~Inst(b).usePty

\* C33: a restart the renderer issues through pty:restart for an agent
\* terminal whose selected variant is 'claude' spawns the claude executable
\* again: every spawn of a restart that returned true was given the file
\* findClaudeExecutable resolves.
C33_RestartKeepsAgentVariant ==
  \A i \in Ids :
    (/\ ret.op = "restart" /\ ret.id = i /\ ret.ok
     /\ ui[i].type = "claude-code" /\ ui[i].codeAgentType = "claude")
    => /\ launch # <<>>
       /\ \A k \in 1..Len(launch) : launch[k].file = findClaudeExecutable(host)

\* the candidate paths of the agent a terminal was created with
CandidatesOf(i) ==
  possiblePaths(host, IF ui[i].codeAgentType = "claude" THEN "claude" ELSE "happy")
\* the positions of the candidates that exist on the host
ExistingOf(i) == {j \in 1..Len(CandidatesOf(i)) : CandidatesOf(i)[j] \in host.files}

\* C34: create for an agent terminal attempts a spawn whatever the host has
\* installed, and the file of every spawn is the first candidate of the
\* per-OS list that exists on disk, or, when no candidate exists, the bare
\* name 'happy' or 'claude'.
C34_FirstExistingCandidate ==
  \A i \in Ids :
    (ret.op = "create" /\ ret.id = i /\ ui[i].type = "claude-code")
    => /\ launch # <<>>
       /\ Len(launch) = Cardinality(SpawnCalls(calls, "pty.spawn") \cup SpawnCalls(calls, "spawn"))
       /\ ret.ok = (\E k \in 1..Len(calls) : calls[k].fn \in {"pty.spawn", "spawn"} /\ ~calls[k].threw)
       /\ \A k \in 1..Len(launch) :
            IF ExistingOf(i) = {}
            THEN launch[k].file = IF ui[i].codeAgentType = "claude" THEN "claude" ELSE "happy"
            ELSE \E j \in ExistingOf(i) :
                   /\ launch[k].file = CandidatesOf(i)[j]
                   /\ \A e \in ExistingOf(i) : j <= e

\* two candidates exist, one under an nvm version and one in a system
\* directory, and the spawn was given the nvm one
C34_Witness ==
  /\ ret.op = "create" /\ ret.ok /\ ui[ret.id].type = "claude-code"
  /\ Cardinality(ExistingOf(ret.id)) = 2
  /\ "/usr/bin/claude" \in host.files
  /\ launch # <<>> /\ launch[1].file = CandidatesOf(ret.id)[1]
  /\ launch[1].file # "/usr/bin/claude"

\* v is a higher version number than w
Higher(v, w) ==
  \/ v[1] > w[1]
  \/ v[1] = w[1] /\ v[2] > w[2]
  \/ v[1] = w[1] /\ v[2] = w[2] /\ v[3] > w[3]
\* the agent's path under the nvm version v
UnderVersion(i, v) ==
  path_join(host, path_join(host, versionsDir(host), Text(VersionName(v))),
            "bin/" \o (IF ui[i].codeAgentType = "claude" THEN "claude" ELSE "happy"))

\* C35: when the agent executable exists under two installed nvm versions,
\* no spawn is given the path under the lower version number, for every
\* pair of version numbers.
C35_NewestVersionFirst ==
  \A i \in Ids :
    (ret.op = "create" /\ ret.id = i /\ ui[i].type = "claude-code")
    => \A v \in Versions, w \in Versions :
         (/\ Higher(v, w)
          /\ UnderVersion(i, v) \in host.files
          /\ UnderVersion(i, w) \in host.files)
         => \A k \in 1..Len(launch) : launch[k].file # UnderVersion(i, w)

ForcedKeys == {"HOME", "PATH", "LANG", "LC_ALL", "PYTHONIOENCODING", "PYTHONUTF8"}

\* C36: the env of every spawn holds every key of the login-shell snapshot
\* and of process.env; a key of both has the value of process.env; LANG and
\* LC_ALL are en_US.UTF-8 and PATH is the augmented PATH whatever the two
\* hold for them, as are the other keys create() sets; and the node-pty
\* spawn and the child_process spawn of one create are given the same env.
C36_EnvMergePriority ==
  (ret.op = "create")
  => \A k \in 1..Len(launch) :
       LET env == launch[k].env
           snapshot == getShellEnv(host)
       IN /\ Keys(env) = Keys(snapshot) \cup Keys(host.env) \cup ForcedKeys
          /\ \A key \in Keys(env) \ ForcedKeys :
               Get(env, key) = IF Has(host.env, key) THEN Get(host.env, key)
                               ELSE Get(snapshot, key)
          /\ Get(env, "LANG") = "en_US.UTF-8"
          /\ Get(env, "LC_ALL") = "en_US.UTF-8"
          /\ Get(env, "PYTHONIOENCODING") = "utf-8"
          /\ Get(env, "PYTHONUTF8") = "1"
          /\ Get(env, "PATH") = getEnhancedPath(host)
          /\ Get(env, "HOME") = IF Has(host.env, "HOME") THEN Get(host.env, "HOME")
                                ELSE homedir(host)
          /\ env = launch[1].env

\* the node-pty spawn threw and the fallback spawned, on a host whose
\* snapshot and process.env both set LANG and HAPPY_SERVER_URL
C36_Witness ==
  /\ ret.op = "create" /\ ret.ok /\ Len(launch) = 2
  /\ launch[1].fn = "pty.spawn" /\ launch[2].fn = "spawn"
  /\ Has(host.env, "LANG") /\ Has(getShellEnv(host), "LANG")
  /\ Has(host.env, "PATH") /\ Has(getShellEnv(host), "PATH")
  /\ Has(getShellEnv(host), "EDITOR")
  /\ Get(launch[2].env, "EDITOR") = "nano"

\* C37: while a session is registered the blocker main started is held by
\* the OS, and the OS never holds more than one blocker of the application.
C37_BlockerWhileSessions ==
  /\ Len(instances) > 0
     => main.powerSaveBlockerId # 0 /\ main.powerSaveBlockerId \in main.blockers
  /\ Cardinality(main.blockers) <= 1

\* a session registered in the second window, under the second blocker
C37_Witness ==
  /\ main.window = "open" /\ main.started = 2 /\ main.blockers = {2}
  /\ ret.op = "create" /\ ret.ok /\ Len(instances) = 1
====
